---- MODULE Spec2Model ----
(***************************************************************************)
(* Model of the thermistor temperature logger firmware.                    *)
(*                                                                         *)
(* Two firmware variants exist in the repository and are modelled side by  *)
(* side; the variable `variant` selects one at power-up:                   *)
(*   "ino"     - Firmware/TemperatureLogger/TemperatureLogger.ino          *)
(*   "part000" - the second (earlier) sketch                               *)
(*                                                                         *)
(* The main program is split at the points where the button interrupt can  *)
(* be taken between two accesses to the shared flag _triggered.  The ISR   *)
(* itself runs with interrupts disabled and is one atomic step.            *)
(*                                                                         *)
(* Arithmetic on float/double is modelled with exact rationals <<n, d>>    *)
(* (d > 0); binary rounding is not modelled.                               *)
(***************************************************************************)
EXTENDS Integers, Sequences, FiniteSets, TLC

VARIABLES
    variant,        \* which sketch is running
    pc,             \* position of the main program (setup / loop)
    _triggered,     \* volatile bool _triggered
    _logging,       \* bool _logging
    _myFile,        \* File _myFile: [open |-> BOOLEAN, name |-> file name]
    attached,       \* attachInterrupt(START, logIsr, RISING) has run
    rtcOk,          \* result of _rtc.begin()
    sdOk,           \* result of SD.begin(CS)
    blinkCode,      \* fault code being blinked by errorBlink (0: none)
    led,            \* level last written to the LED pin
    clock,          \* _rtc.now(): <<month, day, hour, minute, second>>
    openCount,      \* streams currently open in the SD layer
    serialNote,     \* last start/stop notification on Serial
    cycleSerial,    \* records sent to Serial since the last toggle check
    cycleFile,      \* records that reached an open stream since the last toggle check
    pressesSinceCheck, \* history: logIsr invocations since the last toggle check
    unserved,       \* history: a press no toggle check has read as pending yet
    firstCheckDone, \* history: loop() has performed a toggle check
    openFailed,     \* history: the last startLog's SD.open failed
    isrWait,        \* milliseconds the last logIsr spent in delay()
    checkRead,      \* history: what the last toggle check read from _triggered
    curSession,     \* history: <<name, clock>> of the latest startLog, or <<>>
    markSession,    \* history: <<name, clock>> of some earlier startLog, or <<>>
    convIn,         \* converter harness: input resistance <<n, d>>
    convOut,        \* converter harness: result <<n, d>>, or <<>> before the call
    convInt,        \* converter harness: the result * 100 as logData's int argument
    adcIn,          \* divider harness: analogRead value
    adcOut,         \* divider harness: readResistorOhms result, or <<>>
    fmtIn,          \* record harness: <<hour, minute, second, v1, v2, v3>>
    fmtOut          \* record harness: the line logData built, or <<>>

vars == <<variant, pc, _triggered, _logging, _myFile, attached, rtcOk, sdOk,
          blinkCode, led, clock, openCount, serialNote, cycleSerial, cycleFile,
          pressesSinceCheck, unserved, firstCheckDone, openFailed, isrWait,
          checkRead, curSession, markSession, convIn, convOut, convInt, adcIn,
          adcOut, fmtIn, fmtOut>>

ctrlVars == <<variant, pc, _triggered, _logging, _myFile, attached, rtcOk, sdOk,
              blinkCode, led, clock, openCount, serialNote, cycleSerial, cycleFile,
              pressesSinceCheck, unserved, firstCheckDone, openFailed, isrWait,
              checkRead, curSession, markSession>>

convVars == <<convIn, convOut, convInt, adcIn, adcOut, fmtIn, fmtOut>>

----------------------------------------------------------------------------
(* Bounds of the model *)

MaxPresses == 2

(* Program constants *)

START == 2
END == 380
TEMP_OFFSET == -80
SENTINEL == -9999
VIN == 5
R2 == 10000
ADC_FULL == 1024
INT_MIN == -32768
INT_MAX == 32767
INT_SPAN == 65536
ISR_DELAY == 100

Variants == {"ino", "part000"}

----------------------------------------------------------------------------
(* Exact rationals <<n, d>> with d > 0.  <<1, 0>> stands for +infinity, the *)
(* result of a floating point division by zero.                             *)

Abs(x) == IF x < 0 THEN -x ELSE x

RECURSIVE Gcd(_, _)
Gcd(a, b) == IF b = 0 THEN a ELSE Gcd(b, a % b)

\* Normal form: positive denominator, lowest terms
Rat(n, d) ==
    IF d = 0 THEN <<1, 0>>
    ELSE LET g == Gcd(Abs(n), Abs(d))
             s == IF d < 0 THEN -1 ELSE 1
         IN  <<(s * n) \div g, (s * d) \div g>>

RInt(k) == <<k, 1>>

IsInf(a) == a[2] = 0

RAdd(a, b) == IF IsInf(a) THEN a ELSE Rat(a[1] * b[2] + b[1] * a[2], a[2] * b[2])

RSub(a, b) == IF IsInf(a) THEN a ELSE Rat(a[1] * b[2] - b[1] * a[2], a[2] * b[2])

RMul(a, b) == Rat(a[1] * b[1], a[2] * b[2])

RDiv(a, b) ==
    IF b[2] = 0 THEN <<0, 1>>                  \* x / inf = 0
    ELSE IF b[1] = 0 THEN <<1, 0>>             \* x / 0 = inf
    ELSE Rat(a[1] * b[2], a[2] * b[1])

RLess(a, b) == a[1] * b[2] < b[1] * a[2]

REq(a, b) == a[1] * b[2] = b[1] * a[2]

\* C truncation toward zero of n / d, d > 0
TruncDiv(n, d) == IF n >= 0 THEN n \div d ELSE -((-n) \div d)

\* C remainder: sign follows the dividend
TruncMod(n, d) == n - d * TruncDiv(n, d)

----------------------------------------------------------------------------
(* Calibration table TempToOhms[0 .. END-1] of Thermistor-103J-G1J.h.  The  *)
(* header is not part of the available sources: the table is modelled from  *)
(* its description as a strictly decreasing resistance curve.  The values   *)
(* are synthetic: strictly convex, so that no three entries lie on a line,  *)
(* and with one entry at exactly 10000 ohms.                                *)

TempToOhms(i) ==
    LET j == (END - 1) - i
    IN  (j * (j + 1)) \div 2 + 130

\* Rewrite of Arduino map() for floats
map(x, in_min, in_max, out_min, out_max) ==
    RAdd(RDiv(RMul(RSub(x, in_min), RSub(out_max, out_min)),
              RSub(in_max, in_min)),
         out_min)

\* The scan of readThermistorValue over the indices lo .. hi-1 in ascending
\* order: the first index whose entry is below r, or END when there is none.
\* (The range is halved to keep the evaluation shallow; the order of the
\* scan is that of the for loop.)
RECURSIVE ScanRange(_, _, _)
ScanRange(lo, hi, r) ==
    IF lo >= hi THEN END
    ELSE IF hi = lo + 1
         THEN IF RLess(RInt(TempToOhms(lo)), r) THEN lo ELSE END
         ELSE LET mid == (lo + hi) \div 2
                  left == ScanRange(lo, mid, r)
              IN  IF left # END THEN left ELSE ScanRange(mid, hi, r)

\* double Vtherm = reading / 1024.0 * VIN;
Vtherm(reading) == RMul(RDiv(RInt(reading), RInt(ADC_FULL)), RInt(VIN))

\* The divisor VIN / Vtherm - 1 of the resistance
DividerDenominator(reading) == RSub(RDiv(RInt(VIN), Vtherm(reading)), RInt(1))

\* Variant of readResistorOhms that scales the reading by 1023 instead of 1024
readResistorOhms1023(reading) ==
    LET V == RMul(RDiv(RInt(reading), RInt(ADC_FULL - 1)), RInt(VIN))
    IN  RDiv(RInt(R2), RSub(RDiv(RInt(VIN), V), RInt(1)))

\* double readResistorOhms(int channel), on the value analogRead returned
readResistorOhms(reading) == RDiv(RInt(R2), DividerDenominator(reading))

\* Variant of resistanceToTemperature whose scan starts one index early
resistanceToTemperatureFromStart(r) ==
    LET i == ScanRange(START, END, r)
    IN  IF i = END THEN RInt(SENTINEL)
        ELSE RAdd(map(r, RInt(TempToOhms(i - 1)), RInt(TempToOhms(i)),
                      RInt(i - 1), RInt(i)),
                  RInt(TEMP_OFFSET))

\* Variant of resistanceToTemperature that clamps to the last index instead of
\* giving the sentinel when the scan finds nothing
resistanceToTemperatureClamp(r) ==
    LET i == ScanRange(START + 1, END, r)
    IN  IF i = END THEN RInt((END - 1) + TEMP_OFFSET)
        ELSE RAdd(map(r, RInt(TempToOhms(i - 1)), RInt(TempToOhms(i)),
                      RInt(i - 1), RInt(i)),
                  RInt(TEMP_OFFSET))

\* The body of readThermistorValue after the resistance has been read:
\* table scan from START + 1, interpolation, sentinel when nothing is found.
resistanceToTemperature(r) ==
    LET i == ScanRange(START + 1, END, r)
    IN  IF i = END THEN RInt(SENTINEL)
        ELSE RAdd(map(r, RInt(TempToOhms(i - 1)), RInt(TempToOhms(i)),
                      RInt(i - 1), RInt(i)),
                  RInt(TEMP_OFFSET))

\* double readThermistorValue(int channel), on the value analogRead returned
readThermistorValue(reading) == resistanceToTemperature(readResistorOhms(reading))

----------------------------------------------------------------------------
(* logData(t1 * 100, t2 * 100, t3 * 100): float to 16 bit int.  In range    *)
(* the value is truncated toward zero.  Out of range the conversion is      *)
(* undefined; a build may wrap the 32 bit result or saturate.               *)

Wrap16(x) == ((x - INT_MIN) % INT_SPAN) + INT_MIN

FloatToInt(q) ==
    LET t == TruncDiv(q[1], q[2])
    IN  IF INT_MIN <= t /\ t <= INT_MAX THEN {t}
        ELSE {Wrap16(t), INT_MIN, INT_MAX}

\* trunc(q * 100), computed without forming 100 * numerator
Trunc100(q) ==
    LET n == Abs(q[1])
        t == 100 * (n \div q[2]) + (100 * (n % q[2])) \div q[2]
    IN  IF q[1] < 0 THEN -t ELSE t

ScaledInt(temp) == FloatToInt(RInt(Trunc100(temp)))

\* One temperature field of the record: v/100 and abs(v%100)
TempField(v) == <<TruncDiv(v, 100), Abs(TruncMod(v, 100))>>

\* The arguments logData hands to snprintf, in order
LogLine(now, v1, v2, v3) ==
    <<now[3], now[4], now[5], TempField(v1), TempField(v2), TempField(v3)>>

----------------------------------------------------------------------------
(* File names built by startLog *)

Digits == <<"0", "1", "2", "3", "4", "5", "6", "7", "8", "9">>

\* %02d for 0 <= n <= 99
Pad2(n) == <<Digits[(n \div 10) + 1], Digits[(n % 10) + 1]>>

\* Variant of FileNameIno that leaves the minute out of the name
FileNameInoNoMinute(now) ==
    Pad2(now[2]) \o <<"T">> \o Pad2(now[3]) \o <<".csv">>

FileNameIno(now) ==
    Pad2(now[2]) \o <<"T">> \o Pad2(now[3]) \o Pad2(now[4]) \o <<".csv">>

FileNamePart000(now) ==
    Pad2(now[1]) \o <<"-">> \o Pad2(now[2]) \o <<"T">> \o Pad2(now[3])
        \o <<"-">> \o Pad2(now[4]) \o <<".txt">>

FileName(v, now) == IF v = "ino" THEN FileNameIno(now) ELSE FileNamePart000(now)

----------------------------------------------------------------------------
(* The record line built by logData's snprintf, as a sequence of characters *)

\* Decimal digits of n >= 0
RECURSIVE NatDigits(_)
NatDigits(n) ==
    IF n < 10 THEN <<Digits[n + 1]>>
    ELSE NatDigits(n \div 10) \o <<Digits[(n % 10) + 1]>>

\* %d
FormatD(n) == IF n < 0 THEN <<"-">> \o NatDigits(-n) ELSE NatDigits(n)

\* %3d: right-justified in a width of 3
RECURSIVE PadLeft(_, _)
PadLeft(text, width) ==
    IF Len(text) >= width THEN text ELSE PadLeft(<<" ">> \o text, width)

\* One temperature field: "%d.%d" in the .ino, "%3d.%dC" in the other sketch
TempText(v, field) ==
    IF v = "ino" THEN FormatD(field[1]) \o <<".">> \o FormatD(field[2])
    ELSE PadLeft(FormatD(field[1]), 3) \o <<".">> \o FormatD(field[2]) \o <<"C">>

\* The whole line for the arguments args = LogLine(...)
RenderLine(v, args) ==
    Pad2(args[1]) \o <<":">> \o Pad2(args[2]) \o <<":">> \o Pad2(args[3])
        \o <<",">> \o TempText(v, args[4])
        \o <<",">> \o TempText(v, args[5])
        \o <<",">> \o TempText(v, args[6])

\* buffer of logData for the clock reading now and the values v1, v2, v3
LogBuffer(v, now, v1, v2, v3) == RenderLine(v, LogLine(now, v1, v2, v3))

----------------------------------------------------------------------------
(* Environment: clock readings and analog samples used by the controller   *)

\* Sampled clock readings: two in the same minute, one a minute later, one a
\* month later at the same day, hour and minute, and one differing everywhere.
ClockValues ==
    {<<7, 1, 12, 0, 0>>, <<7, 1, 12, 0, 30>>, <<7, 1, 12, 1, 0>>,
     <<8, 1, 12, 0, 0>>, <<8, 2, 13, 1, 30>>}

\* Lexicographic order on <<month, day, hour, minute, second>>
RECURSIVE LexLess(_, _, _)
LexLess(a, b, k) ==
    IF k > Len(a) THEN FALSE
    ELSE IF a[k] # b[k] THEN a[k] < b[k]
    ELSE LexLess(a, b, k + 1)

ClockLess(a, b) == LexLess(a, b, 1)

FirstClock == CHOOSE c \in ClockValues : \A o \in ClockValues : ~ClockLess(o, c)

\* analogRead(A0), analogRead(A1), analogRead(A2) of one cycle
RawTriples == {<<512, 512, 512>>, <<300, 512, 0>>}

RawReadings == UNION {{t[1], t[2], t[3]} : t \in RawTriples}

\* (int)(readThermistorValue(channel) * 100) for each sampled reading
ScaledReading == [raw \in RawReadings |-> ScaledInt(readThermistorValue(raw))]

NoFile == [open |-> FALSE, name |-> <<>>]

----------------------------------------------------------------------------
(* Power-up state *)

\* Globals as initialised by the sketch: _logging starts false in the .ino
\* and true in the other sketch.
InitLogging(v) == v = "part000"

InitCtrl ==
    /\ variant \in Variants
    /\ pc = "setup_rtc"
    /\ _triggered = FALSE
    /\ _logging = InitLogging(variant)
    /\ _myFile = NoFile
    /\ attached = FALSE
    /\ rtcOk = TRUE
    /\ sdOk = TRUE
    /\ blinkCode = 0
    /\ led = "LOW"
    /\ clock = FirstClock
    /\ openCount = 0
    /\ serialNote = "none"
    /\ cycleSerial = <<>>
    /\ cycleFile = <<>>
    /\ pressesSinceCheck = 0
    /\ unserved = FALSE
    /\ firstCheckDone = FALSE
    /\ openFailed = FALSE
    /\ isrWait = 0
    /\ checkRead = FALSE
    /\ curSession = <<>>
    /\ markSession = <<>>

\* Harness variables at rest
ConvIdle == convIn = <<0, 1>> /\ convOut = <<>> /\ convInt = 0

AdcIdle == adcIn = 0 /\ adcOut = <<>>

FmtIdle == fmtIn = <<0, 0, 0, 0, 0, 0>> /\ fmtOut = <<>>

Init ==
    /\ InitCtrl
    /\ ConvIdle
    /\ AdcIdle
    /\ FmtIdle

----------------------------------------------------------------------------
(* setup() *)

\* errorBlink(code, blocking): loops forever when blocking, else returns.
\* Gives the position the caller continues at.
errorBlink(code, blocking, next) == IF blocking THEN "errorBlink" ELSE next

\* Both sketches call errorBlink(code) and so take the default blocking = false.
BlinkBlockingDefault == FALSE

RtcFaultCode == 2

SdFaultCode(v) == IF v = "ino" THEN 5 ELSE 4

\* _rtc.begin() and the RTC initialisation that follows
SetupRtc ==
    /\ pc = "setup_rtc"
    /\ \E ok \in BOOLEAN :
        /\ rtcOk' = ok
        /\ pc' = IF ok THEN "setup_sd"
                 ELSE errorBlink(RtcFaultCode, BlinkBlockingDefault, "setup_sd")
        /\ blinkCode' = IF ~ok /\ BlinkBlockingDefault THEN RtcFaultCode ELSE blinkCode
    /\ UNCHANGED <<variant, _triggered, _logging, _myFile, attached, sdOk, led,
                   clock, openCount, serialNote, cycleSerial, cycleFile,
                   pressesSinceCheck, unserved, firstCheckDone, openFailed,
                   curSession, markSession,
                   isrWait, checkRead>>
    /\ UNCHANGED convVars

\* SD.begin(CS)
SetupSd ==
    /\ pc = "setup_sd"
    /\ \E ok \in BOOLEAN :
        /\ sdOk' = ok
        /\ pc' = IF ok THEN "setup_attach"
                 ELSE errorBlink(SdFaultCode(variant), BlinkBlockingDefault, "setup_attach")
        /\ blinkCode' = IF ~ok /\ BlinkBlockingDefault
                        THEN SdFaultCode(variant) ELSE blinkCode
    /\ UNCHANGED <<variant, _triggered, _logging, _myFile, attached, rtcOk, led,
                   clock, openCount, serialNote, cycleSerial, cycleFile,
                   pressesSinceCheck, unserved, firstCheckDone, openFailed,
                   curSession, markSession,
                   isrWait, checkRead>>
    /\ UNCHANGED convVars

\* pinMode(START, INPUT_PULLUP); attachInterrupt(..., logIsr, RISING)
\* The second sketch's setup ends here; the .ino goes on to SetupFinish.
SetupAttach ==
    /\ pc = "setup_attach"
    /\ attached' = TRUE
    /\ pc' = IF variant = "ino" THEN "setup_finish" ELSE "check"
    /\ UNCHANGED <<variant, _triggered, _logging, _myFile, rtcOk, sdOk, blinkCode,
                   led, clock, openCount, serialNote, cycleSerial, cycleFile,
                   pressesSinceCheck, unserved, firstCheckDone, openFailed,
                   curSession, markSession,
                   isrWait, checkRead>>
    /\ UNCHANGED convVars

\* .ino only: digitalWrite(LED, HIGH); _triggered = false;
\* A press taken since attachInterrupt is discarded here, before loop() starts;
\* the press histories restart with the flag.
SetupFinish ==
    /\ pc = "setup_finish"
    /\ led' = "HIGH"
    /\ _triggered' = FALSE
    /\ pressesSinceCheck' = 0
    /\ unserved' = FALSE
    /\ pc' = "check"
    /\ UNCHANGED <<variant, _logging, _myFile, attached, rtcOk, sdOk, blinkCode,
                   clock, openCount, serialNote, cycleSerial, cycleFile,
                   firstCheckDone, openFailed, curSession, markSession,
                   isrWait, checkRead>>
    /\ UNCHANGED convVars

----------------------------------------------------------------------------
(* loop() *)

\* Variant of Check with the test inverted
CheckInverted ==
    /\ pc = "check"
    /\ pc' = IF _triggered THEN "sample" ELSE "clear"
    /\ pressesSinceCheck' = 0
    /\ unserved' = IF _triggered THEN FALSE ELSE unserved
    /\ firstCheckDone' = TRUE
    /\ checkRead' = _triggered
    /\ cycleSerial' = <<>>
    /\ cycleFile' = <<>>
    /\ UNCHANGED <<variant, _triggered, _logging, _myFile, attached, rtcOk, sdOk,
                   blinkCode, led, clock, openCount, serialNote, openFailed,
                   curSession, markSession,
                   isrWait>>
    /\ UNCHANGED convVars

\* Variant of Check that tests _logging instead of _triggered
CheckLogging ==
    /\ pc = "check"
    /\ pc' = IF _logging THEN "clear" ELSE "sample"
    /\ pressesSinceCheck' = 0
    /\ unserved' = IF _triggered THEN FALSE ELSE unserved
    /\ firstCheckDone' = TRUE
    /\ checkRead' = _triggered
    /\ cycleSerial' = <<>>
    /\ cycleFile' = <<>>
    /\ UNCHANGED <<variant, _triggered, _logging, _myFile, attached, rtcOk, sdOk,
                   blinkCode, led, clock, openCount, serialNote, openFailed,
                   curSession, markSession,
                   isrWait>>
    /\ UNCHANGED convVars

\* if (_triggered): the read of the flag
Check ==
    /\ pc = "check"
    /\ pc' = IF _triggered THEN "clear" ELSE "sample"
    /\ pressesSinceCheck' = 0
    /\ unserved' = IF _triggered THEN FALSE ELSE unserved
    /\ firstCheckDone' = TRUE
    /\ checkRead' = _triggered
    /\ cycleSerial' = <<>>
    /\ cycleFile' = <<>>
    /\ UNCHANGED <<variant, _triggered, _logging, _myFile, attached, rtcOk, sdOk,
                   blinkCode, led, clock, openCount, serialNote, openFailed,
                   curSession, markSession,
                   isrWait>>
    /\ UNCHANGED convVars

\* _triggered = false;
Clear ==
    /\ pc = "clear"
    /\ _triggered' = FALSE
    /\ pc' = "toggle"
    /\ UNCHANGED <<variant, _logging, _myFile, attached, rtcOk, sdOk, blinkCode,
                   led, clock, openCount, serialNote, cycleSerial, cycleFile,
                   pressesSinceCheck, unserved, firstCheckDone, openFailed,
                   curSession, markSession,
                   isrWait, checkRead>>
    /\ UNCHANGED convVars

\* if (_logging) { _logging = false; ... } else { _logging = true; ... }
Toggle ==
    /\ pc = "toggle"
    /\ _logging' = ~_logging
    /\ pc' = IF _logging THEN "stopLog" ELSE "startLog"
    /\ UNCHANGED <<variant, _triggered, _myFile, attached, rtcOk, sdOk, blinkCode,
                   led, clock, openCount, serialNote, cycleSerial, cycleFile,
                   pressesSinceCheck, unserved, firstCheckDone, openFailed,
                   curSession, markSession,
                   isrWait, checkRead>>
    /\ UNCHANGED convVars

\* Outcomes of SD.open(name, FILE_WRITE): without a card it fails; with one
\* it may still fail (card full, card removed, name rejected).
OpenOutcomes == IF sdOk THEN BOOLEAN ELSE {FALSE}

\* startLog(): the handle previously held by _myFile is overwritten, not closed.
StartLog ==
    /\ pc = "startLog"
    /\ LET name == FileName(variant, clock)
       IN  /\ serialNote' = "started"
           /\ \E ok \in OpenOutcomes :
                /\ _myFile' = IF ok THEN [open |-> TRUE, name |-> name] ELSE NoFile
                /\ openCount' = IF ok THEN openCount + 1 ELSE openCount
                /\ openFailed' = ~ok
           /\ curSession' = <<name, clock>>
           /\ markSession' \in (IF curSession = <<>> THEN {markSession}
                                ELSE {markSession, curSession})
    /\ pc' = "sample"
    /\ UNCHANGED <<variant, _triggered, _logging, attached, rtcOk, sdOk, blinkCode,
                   led, clock, cycleSerial, cycleFile, pressesSinceCheck, unserved,
                   firstCheckDone,
                   isrWait, checkRead>>
    /\ UNCHANGED convVars

\* Variant of StopLog that prints the notification without closing the file
StopLogNoClose ==
    /\ pc = "stopLog"
    /\ serialNote' = "stopped"
    /\ pc' = "sample"
    /\ UNCHANGED <<variant, _triggered, _logging, _myFile, attached, rtcOk, sdOk,
                   blinkCode, led, clock, openCount, openFailed, cycleSerial,
                   cycleFile, pressesSinceCheck, unserved, firstCheckDone,
                   curSession, markSession,
                   isrWait, checkRead>>
    /\ UNCHANGED convVars

\* stopLog(): _myFile.close() closes the stream if the handle holds one
StopLog ==
    /\ pc = "stopLog"
    /\ _myFile' = NoFile
    /\ openCount' = IF _myFile.open THEN openCount - 1 ELSE openCount
    /\ openFailed' = FALSE
    /\ serialNote' = "stopped"
    /\ pc' = "sample"
    /\ UNCHANGED <<variant, _triggered, _logging, attached, rtcOk, sdOk, blinkCode,
                   led, clock, cycleSerial, cycleFile, pressesSinceCheck, unserved,
                   firstCheckDone, curSession, markSession,
                   isrWait, checkRead>>
    /\ UNCHANGED convVars

\* File::println on a handle that holds no open stream writes nothing
FileAppend(file, lines, line) == IF file.open THEN Append(lines, line) ELSE lines

\* logData(v1, v2, v3)
logData(v1, v2, v3) ==
    LET buffer == LogBuffer(variant, clock, v1, v2, v3)
    IN  /\ cycleFile' = IF _logging THEN FileAppend(_myFile, cycleFile, buffer)
                        ELSE cycleFile
        /\ cycleSerial' = Append(cycleSerial, buffer)

\* Level of the LED pin when loop() reaches its final delay
LedAfterCycle(v) == IF v = "ino" THEN "HIGH" ELSE "LOW"

\* The rest of loop(): three readings, logData, LED activity
SampleAndLog ==
    /\ pc = "sample"
    /\ \E raw \in RawTriples :
         \E v1 \in ScaledReading[raw[1]],
            v2 \in ScaledReading[raw[2]],
            v3 \in ScaledReading[raw[3]] :
              logData(v1, v2, v3)
    /\ led' = LedAfterCycle(variant)
    /\ pc' = "check"
    /\ UNCHANGED <<variant, _triggered, _logging, _myFile, attached, rtcOk, sdOk,
                   blinkCode, clock, openCount, serialNote, pressesSinceCheck,
                   unserved, firstCheckDone, openFailed, curSession,
                   markSession,
                   isrWait, checkRead>>
    /\ UNCHANGED convVars

----------------------------------------------------------------------------
(* Interrupt and environment *)

\* Level of the LED pin after logIsr: the .ino pulls it LOW when not logging
IsrLed(v, logging, level) == IF v = "ino" /\ ~logging THEN "LOW" ELSE level

\* Milliseconds logIsr spends in delay(): the .ino waits when not logging
IsrDelay(v, logging) == IF v = "ino" /\ ~logging THEN ISR_DELAY ELSE 0

\* logIsr(): taken on a rising edge once the interrupt is attached
LogIsr ==
    /\ attached
    /\ pc \notin {"errorBlink"}
    /\ pressesSinceCheck < MaxPresses
    /\ _triggered' = TRUE
    /\ led' = IsrLed(variant, _logging, led)
    /\ isrWait' = IsrDelay(variant, _logging)
    /\ pressesSinceCheck' = pressesSinceCheck + 1
    /\ unserved' = TRUE
    /\ UNCHANGED <<variant, pc, _logging, _myFile, attached, rtcOk, sdOk, blinkCode,
                   clock, openCount, serialNote, cycleSerial, cycleFile,
                   firstCheckDone, openFailed, curSession, markSession,
                   checkRead>>
    /\ UNCHANGED convVars

\* The real time clock advances
Tick ==
    /\ \E c \in ClockValues :
        /\ ClockLess(clock, c)
        /\ clock' = c
    /\ UNCHANGED <<variant, pc, _triggered, _logging, _myFile, attached, rtcOk, sdOk,
                   blinkCode, led, openCount, serialNote, cycleSerial, cycleFile,
                   pressesSinceCheck, unserved, firstCheckDone, openFailed,
                   curSession, markSession,
                   isrWait, checkRead>>
    /\ UNCHANGED convVars

Next ==
    \/ SetupRtc
    \/ SetupSd
    \/ SetupAttach
    \/ SetupFinish
    \/ Check
    \/ Clear
    \/ Toggle
    \/ StartLog
    \/ StopLog
    \/ SampleAndLog
    \/ LogIsr
    \/ Tick

Spec == Init /\ [][Next]_vars

\* The Arduino core calls loop() again and again and every statement of it
\* returns: each step of loop() that is ready is eventually taken.  Nothing
\* is assumed about the button or the clock.
LoopFairness ==
    /\ WF_vars(Check)
    /\ WF_vars(Clear)
    /\ WF_vars(Toggle)
    /\ WF_vars(StartLog)
    /\ WF_vars(StopLog)
    /\ WF_vars(SampleAndLog)

SpecLive == Spec /\ LoopFairness

----------------------------------------------------------------------------
(* Converter harness: resistanceToTemperature applied to one resistance.   *)
(* The controller stays at power-up.                                        *)

\* How far above the largest and below the smallest table entry inputs go
MaxOver == 3

TableMax == TempToOhms(0)

TableMin == TempToOhms(END - 1)

\* Resistances at, just above and just below every table entry, beyond both
\* ends of the table, and every resistance an ADC reading can produce.
ConvInputs ==
    {RInt(TempToOhms(k) + d) : k \in 0..(END - 1), d \in {-1, 0, 1}}
        \cup {RInt(TableMax + d) : d \in 1..MaxOver}
        \cup {RInt(TableMin - d) : d \in 1..MaxOver}
        \cup {readResistorOhms(raw) : raw \in 0..(ADC_FULL - 1)}

InitConv ==
    /\ InitCtrl
    /\ convIn \in ConvInputs
    /\ convOut = <<>>
    /\ convInt = 0
    /\ AdcIdle
    /\ FmtIdle

\* float t = readThermistorValue(...); then t * 100 handed to logData's int
Convert ==
    /\ convOut = <<>>
    /\ LET temp == resistanceToTemperature(convIn)
       IN  /\ convOut' = temp
           /\ convInt' \in ScaledInt(temp)
    /\ UNCHANGED <<convIn, adcIn, adcOut, fmtIn, fmtOut>>
    /\ UNCHANGED ctrlVars

NextConv == Convert

SpecConv == InitConv /\ [][NextConv]_vars

----------------------------------------------------------------------------
(* Divider harness: readResistorOhms applied to one ADC reading.  The      *)
(* controller stays at power-up.                                            *)

AdcReadings == 0..(ADC_FULL - 1)

InitOhms ==
    /\ InitCtrl
    /\ ConvIdle
    /\ adcIn \in AdcReadings
    /\ adcOut = <<>>
    /\ FmtIdle

\* adcOut: <<the divisor, the resistance returned>>
ReadOhms ==
    /\ adcOut = <<>>
    /\ adcOut' = <<DividerDenominator(adcIn), readResistorOhms(adcIn)>>
    /\ UNCHANGED <<convIn, convOut, convInt, adcIn, fmtIn, fmtOut>>
    /\ UNCHANGED ctrlVars

NextOhms == ReadOhms

SpecOhms == InitOhms /\ [][NextOhms]_vars

----------------------------------------------------------------------------
(* Record harness: the line logData builds for one timestamp and three     *)
(* values in hundredths.  The controller stays at power-up.                *)

FmtTimes == {<<0, 0, 0>>, <<14, 5, 9>>, <<23, 59, 59>>}

\* Hundredths of a degree: both ends of the int range, the sentinel's
\* magnitude, values with a fractional part below 10 and values between
\* -1.00 and 0.00
FmtValues ==
    {INT_MIN, -9999, -530, -105, -100, -37, -5, 0, 5, 37, 100, 2305, 2345, 10000,
     INT_MAX}

FmtInputs ==
    {<<t[1], t[2], t[3], v1, v2, v3>> :
        t \in FmtTimes, v1 \in FmtValues, v2 \in FmtValues, v3 \in FmtValues}

InitFmt ==
    /\ InitCtrl
    /\ ConvIdle
    /\ AdcIdle
    /\ fmtIn \in FmtInputs
    /\ fmtOut = <<>>

Format ==
    /\ fmtOut = <<>>
    /\ fmtOut' = LogBuffer(variant, <<1, 1, fmtIn[1], fmtIn[2], fmtIn[3]>>,
                           fmtIn[4], fmtIn[5], fmtIn[6])
    /\ UNCHANGED <<convIn, convOut, convInt, adcIn, adcOut, fmtIn>>
    /\ UNCHANGED ctrlVars

NextFmt == Format

SpecFmt == InitFmt /\ [][NextFmt]_vars

----------------------------------------------------------------------------
(* Properties of the logging session controller, checked under Spec        *)

InLoop == pc \in {"check", "clear", "toggle", "startLog", "stopLog", "sample"}

\* C1: toggle coalescing.  When a cycle performs its toggle check, one or more
\* presses since the previous cycle's check mean the flag is read as pending, so
\* the cycle performs one transition, and no press since then means it is read
\* as clear, so the cycle performs none.
C1_ToggleCoalescing ==
    (pc = "check" /\ firstCheckDone) =>
        /\ (pressesSinceCheck >= 1 => _triggered)
        /\ (pressesSinceCheck = 0 => ~_triggered)

\* C2: whenever a record is about to be emitted while _logging is true, _myFile
\* holds a stream that startLog opened and nothing has closed.
C2_ActiveHasOpenStream ==
    (pc = "sample" /\ _logging) => (_myFile.open /\ openCount = 1)

\* C3: session exclusivity.  At most one stream is open at any time, and
\* startLog is only ever reached with no stream open.
C3_SessionExclusivity ==
    /\ openCount <= 1
    /\ (pc = "startLog" => (openCount = 0 /\ ~_myFile.open))

\* C3 witness: a later session holds the only open stream after an earlier
\* session was started and stopped.
C3_Witness ==
    /\ markSession # <<>>
    /\ curSession # <<>>
    /\ _myFile.open
    /\ openCount = 1
    /\ pc = "sample"

\* C4: once the SD.open of a toggle to Active has failed, the session state is
\* Inactive when that toggle's processing is over.
C4_OpenFailureFallsBack ==
    openFailed => ~_logging

\* C5: fatal halt.  When _rtc.begin() or SD.begin(CS) has failed, setup stays
\* in the blink loop of errorBlink with the fault code showing: the interrupt
\* is not attached, loop() does not run, nothing is logged or opened.
C5_FatalHalt ==
    (~rtcOk \/ ~sdOk) =>
        /\ pc = "errorBlink"
        /\ blinkCode # 0
        /\ ~attached
        /\ cycleSerial = <<>>
        /\ openCount = 0

\* C6: at the end of every cycle exactly one record has gone to Serial; the
\* stream received that same record if the session is Active, and nothing if
\* it is Inactive.
C6_RecordPerCycle ==
    (pc = "check" /\ firstCheckDone) =>
        /\ Len(cycleSerial) = 1
        /\ (_logging => cycleFile = cycleSerial)
        /\ (~_logging => cycleFile = <<>>)

\* C7: the test-and-clear of the pending flag loses no press and serves none
\* twice.  Inside loop(), a press that no toggle check has yet read as pending
\* is still pending in _triggered, and a flag read as pending stands for a
\* press not yet served.
C7_AtomicTestAndClear ==
    InLoop =>
        /\ (unserved => _triggered)
        /\ ((pc = "check" /\ _triggered) => unserved)

\* C10 as stated: two startLog calls at distinct clock readings use distinct
\* file names.
C10_DistinctTimesDistinctNames ==
    (markSession # <<>> /\ curSession # <<>> /\ markSession[2] # curSession[2])
        => markSession[1] # curSession[1]

\* The clock fields startLog puts in the name: day, hour, minute in the .ino,
\* month, day, hour, minute in the other sketch.
NameFields(v, now) ==
    IF v = "ino" THEN <<now[2], now[3], now[4]>>
    ELSE <<now[1], now[2], now[3], now[4]>>

\* C10, amended: two startLog calls use distinct file names exactly when their
\* clock readings differ in a field the name is built from; sessions started
\* within the same minute (and, in the .ino, at the same day, hour and minute
\* of different months) share a name.
C10_NamesDistinctPerMinute ==
    (markSession # <<>> /\ curSession # <<>>) =>
        ((markSession[1] # curSession[1])
            <=> (NameFields(variant, markSession[2]) # NameFields(variant, curSession[2])))

\* C10 witness: two sessions of the .ino started in different minutes, with
\* different names.
C10_Witness ==
    /\ variant = "ino"
    /\ markSession # <<>>
    /\ curSession # <<>>
    /\ markSession[2][4] # curSession[2][4]
    /\ markSession[1] # curSession[1]

\* The session: state, stream handle, streams open, notification
session == <<_logging, _myFile, openCount, serialNote>>

\* A step that is an invocation of logIsr
IsrStep == pressesSinceCheck' = pressesSinceCheck + 1

\* C11: logIsr only sets the pending flag.  Every invocation leaves the session
\* state, the stream, the LED level, the position of the main program and the
\* records unchanged, and spends no time in a blocking wait.
C11_IsrOnlySetsFlag ==
    [][IsrStep =>
          /\ _triggered'
          /\ session' = session
          /\ led' = led
          /\ pc' = pc
          /\ <<cycleSerial, cycleFile, clock, attached>>'
               = <<cycleSerial, cycleFile, clock, attached>>
          /\ isrWait' = 0]_vars

\* C13: a toggle check that reads the flag as not pending goes straight to the
\* sampling, and from that check to the end of the cycle the session state,
\* the stream handle and the notification stay as they were: no startLog, no
\* stopLog.
C13_NoToggleWithoutRequest ==
    [][/\ (pc = "check" /\ ~_triggered /\ pc' # pc)
            => (pc' = "sample" /\ ~checkRead')
       /\ (pc = "check" \/ (pc = "sample" /\ ~checkRead))
            => session' = session]_vars

\* C13 witness: the end of a cycle whose toggle check read no request, with
\* the session Active on an open stream.
C13_Witness ==
    /\ pc = "check"
    /\ firstCheckDone
    /\ ~checkRead
    /\ Len(cycleSerial) = 1
    /\ _logging
    /\ _myFile.open

C18_StartStopAlternate ==
    /\ (pc = "stopLog" => (serialNote = "started" /\ _myFile.open))
    /\ (pc = "startLog" => serialNote \in {"none", "stopped"})

----------------------------------------------------------------------------
(* Properties of the converter, checked under SpecConv                     *)

Converted == convOut # <<>>

IsTableEntry(r, k) == REq(r, RInt(TempToOhms(k)))

C9_ExactAtTableEntries ==
    Converted =>
        \A k \in 0..(END - 1) :
            IsTableEntry(convIn, k) => convOut = RInt(k + TEMP_OFFSET)

\* Table entry i is strictly below the resistance r
Below(i, r) == RLess(RInt(TempToOhms(i)), r)

\* out is the point at resistance r of the line through entries i-1 and i,
\* shifted by TEMP_OFFSET
OnSegment(out, r, i) ==
    RSub(out, RInt((i - 1) + TEMP_OFFSET))
        = RDiv(RSub(r, RInt(TempToOhms(i - 1))),
               RInt(TempToOhms(i) - TempToOhms(i - 1)))

\* C15: the scan covers the table from index 1, so a resistance strictly
\* between adjacent entries i-1 and i, for any i in 1 .. END-1, converts to a
\* temperature between (i-1) + TEMP_OFFSET and i + TEMP_OFFSET.
C15_BracketedByNeighbours ==
    Converted =>
        \A i \in 1..(END - 1) :
            (Below(i, convIn) /\ RLess(convIn, RInt(TempToOhms(i - 1)))) =>
                /\ ~RLess(convOut, RInt((i - 1) + TEMP_OFFSET))
                /\ ~RLess(RInt(i + TEMP_OFFSET), convOut)

\* C17: when the converter gives the sentinel, the int handed to logData is
\* the sentinel in hundredths and its record field reads -9999 and 0.
C17_SentinelSurvivesScaling ==
    (Converted /\ convOut = RInt(SENTINEL)) =>
        /\ convInt = SENTINEL * 100
        /\ TempField(convInt) = <<SENTINEL, 0>>

\* C19: the result is the sentinel exactly when no entry at the scanned indices
\* START+1 .. END-1 is strictly below the resistance, which is exactly when the
\* resistance is at or below the last entry; otherwise it is the interpolation
\* on the segment ending at the first scanned index whose entry is below the
\* resistance.
C19_SentinelIffNothingBelow ==
    Converted =>
        LET scanned == (START + 1)..(END - 1)
            noneBelow == \A i \in scanned : ~Below(i, convIn)
        IN  /\ (convOut = RInt(SENTINEL)) <=> noneBelow
            /\ noneBelow <=> ~RLess(RInt(TableMin), convIn)
            /\ ~noneBelow =>
                 \E i \in scanned :
                    /\ Below(i, convIn)
                    /\ (i = START + 1 \/ ~Below(i - 1, convIn))
                    /\ OnSegment(convOut, convIn, i)

\* C19 witness: the resistance of the last table entry converted to the
\* sentinel.
C19_Witness ==
    /\ Converted
    /\ convIn = RInt(TableMin)
    /\ convOut = RInt(SENTINEL)

----------------------------------------------------------------------------
(* Properties of the voltage divider, checked under SpecOhms               *)

\* C14: for every reading in 1 .. 1023 the divisor VIN / Vtherm - 1 is a
\* non-zero number and the resistance returned is R2 * reading / (1024 -
\* reading); a reading of 512 gives exactly 10000 ohms.
C14_DividerFormula ==
    (adcOut # <<>> /\ adcIn \in 1..(ADC_FULL - 1)) =>
        /\ ~IsInf(adcOut[1])
        /\ adcOut[1][1] # 0
        /\ adcOut[2] = Rat(R2 * adcIn, ADC_FULL - adcIn)
        /\ (adcIn = 512 => adcOut[2] = <<10000, 1>>)

\* C14 witness: the mid-scale reading has been converted to 10000 ohms.
C14_Witness ==
    /\ adcIn = 512
    /\ adcOut # <<>>
    /\ adcOut[2] = <<10000, 1>>

----------------------------------------------------------------------------
(* Properties of the record format, checked under SpecFmt                  *)

\* Reading a line back: fields separated by ",", the time as HH:MM:SS, each
\* temperature as a signed decimal number with optional leading blanks and an
\* optional trailing "C".

DigitValue(c) == CHOOSE k \in 0..9 : Digits[k + 1] = c

RECURSIVE ParseNat(_)
ParseNat(text) ==
    IF text = <<>> THEN 0
    ELSE 10 * ParseNat(SubSeq(text, 1, Len(text) - 1)) + DigitValue(text[Len(text)])

\* The pieces of text between occurrences of sep
RECURSIVE SplitOn(_, _)
SplitOn(text, sep) ==
    IF \A k \in 1..Len(text) : text[k] # sep THEN <<text>>
    ELSE LET k == CHOOSE k \in 1..Len(text) :
                    text[k] = sep /\ \A j \in 1..(k - 1) : text[j] # sep
         IN  <<SubSeq(text, 1, k - 1)>> \o SplitOn(SubSeq(text, k + 1, Len(text)), sep)

Strip(text) == SelectSeq(text, LAMBDA c : c \notin {" ", "C"})

\* A decimal number as hundredths: "23.5" is 2350, "-5.30" is -530
ParseHundredths(text) ==
    LET parts == SplitOn(Strip(text), ".")
        neg == parts[1] # <<>> /\ parts[1][1] = "-"
        whole == ParseNat(IF neg THEN Tail(parts[1]) ELSE parts[1])
        frac == IF Len(parts[2]) = 1 THEN 10 * ParseNat(parts[2])
                ELSE ParseNat(SubSeq(parts[2], 1, 2))
        mag == 100 * whole + frac
    IN  IF neg THEN -mag ELSE mag

ParseLine(line) ==
    LET fields == SplitOn(line, ",")
        time == SplitOn(fields[1], ":")
    IN  <<ParseNat(time[1]), ParseNat(time[2]), ParseNat(time[3]),
          ParseHundredths(fields[2]), ParseHundredths(fields[3]),
          ParseHundredths(fields[4])>>

\* C12: record format round trip.  The line logData builds reads back to the
\* hour, minute and second and to the three temperatures in hundredths it was
\* built from.
C12_RecordRoundTrip ==
    fmtOut # <<>> => ParseLine(fmtOut) = fmtIn

====
